---- MODULE Spec2Model ----
(***************************************************************************)
(* Ethereal: the per-thread search state of src/thread.c (thread pool      *)
(* creation, reset, search start, counter aggregation, destruction) and    *)
(* the memory-mapped file reader of src/misc.c.                            *)
(***************************************************************************)
EXTENDS Integers, Sequences, FiniteSets, TLC

(***************************************************************************)
(* Bounds of the model.                                                    *)
(***************************************************************************)
MaxThreads == 2
\* MAX_PLY of the engine, scaled down: the logical depth of a frame array.
MaxPly == 2
\* STACK_OFFSET of the engine, scaled down: the padding frames below index 0.
StackPad == 1
\* The search steps (writes of a worker to its own state) in one run.
MaxWrites == 1
\* The workers of the pools the aggregation specification draws.
MaxAggThreads == 4
\* The file handles open at once, and the regions mapped at once.
MaxHandles == 2
MaxRegions == 2
\* The increments the worker threads begin in one search.
MaxIncrements == 3

(***************************************************************************)
(* Program constants.                                                      *)
(***************************************************************************)
NULL == 0
WHITE == 0
BLACK == 1
\* The alignment asked of ethereal_alloc and tested on every accumulator.
ALIGNMENT == 64
\* uint64_t as four limbs, least significant first.
LimbBase == 65536
\* MakeScore packs the second component above the low 16 bits.
ScoreShift == 65536
ScoreHalf == 32768
\* The address calloc returns for the Thread array.
PoolAddr == 8
\* The accumulator a caller's Board points at: no block of the pool.
ExtState == 16
\* What open and CreateFile return for a file they cannot open.
INVALID_HANDLE == -1
\* (void *) -1, what mmap returns when it maps nothing.
MAP_FAILED == -1
\* The size of a page, the unit of the addresses mmap returns.
PageSize == 4096

STACK_OFFSET == StackPad
STACK_SIZE == MaxPly + STACK_OFFSET
Slots == 0 .. (STACK_SIZE - 1)

(***************************************************************************)
(* uint64_t arithmetic.                                                    *)
(***************************************************************************)
U64(k) == <<k, 0, 0, 0>>
U64Zero == U64(0)
U64Max == <<LimbBase - 1, LimbBase - 1, LimbBase - 1, LimbBase - 1>>
U64High == <<0, 0, 0, LimbBase \div 2>>

\* A saturating add: what the counters would need to never wrap.
Add64Saturate(a, b) ==
    LET s1 == a[1] + b[1]
        s2 == a[2] + b[2] + (s1 \div LimbBase)
        s3 == a[3] + b[3] + (s2 \div LimbBase)
        s4 == a[4] + b[4] + (s3 \div LimbBase)
    IN  IF s4 >= LimbBase THEN U64Max
        ELSE <<s1 % LimbBase, s2 % LimbBase, s3 % LimbBase, s4 % LimbBase>>

\* a += b on uint64_t: the carry out of the top limb is dropped.
Add64(a, b) ==
    LET s1 == a[1] + b[1]
        s2 == a[2] + b[2] + (s1 \div LimbBase)
        s3 == a[3] + b[3] + (s2 \div LimbBase)
        s4 == a[4] + b[4] + (s3 \div LimbBase)
    IN  <<s1 % LimbBase, s2 % LimbBase, s3 % LimbBase, s4 % LimbBase>>

(***************************************************************************)
(* Scores: MakeScore(mg, eg) is one int holding two 16-bit components.     *)
(***************************************************************************)
MakeScore(mg, eg) == eg * ScoreShift + mg

\* (int16_t)(uint16_t)(unsigned)(s)
ScoreMG(s) ==
    LET low == s % ScoreShift
    IN  IF low >= ScoreHalf THEN low - ScoreShift ELSE low

\* (int16_t)(uint16_t)((unsigned)(s + 0x8000) >> 16)
ScoreEG(s) == (s + ScoreHalf) \div ScoreShift

(***************************************************************************)
(* The state.                                                              *)
(***************************************************************************)
VARIABLES
    status,               \* "start", "live", "deleted", "exited", "crashed"
    threads,              \* the Thread array: worker index -> Thread
    heap,                 \* the live blocks of ethereal_alloc: address -> NNUEStack[]
    allocLog,             \* what each call of ethereal_alloc returned, in order
    freeLog,              \* what each call of ethereal_free was given, in order
    arrayFrees,           \* the calls of free on the Thread array
    ContemptDrawPenalty,
    ContemptComplexity,
    sizeofNNUEStack,      \* sizeof(NNUEStack) of the build
    accumulationOffset,   \* offset of accumulator.accumulation in NNUEStack
    writes,               \* the search steps so far
    nthreadsArg,          \* the worker count createThreadPool was called with
    last,                 \* the operation that ran last, its arguments and result
    platform,             \* "posix" or "win32": the branch of misc.c that is built
    handles,              \* the open file handles: handle -> path
    regions,              \* the live mapped views: records of addr, len, section
    sections,             \* win32: the open file-mapping objects
    cfd,                  \* the caller's FD, the result of open_file
    cdata,                \* the caller's pointer, the result of map_file
    cmap,                 \* the caller's map_t, set by map_file
    work                  \* each worker thread: the counter it is incrementing, the
                          \* value it has loaded, the increments it has finished

poolVars == <<status, threads, heap, allocLog, freeLog, arrayFrees,
              ContemptDrawPenalty, ContemptComplexity, sizeofNNUEStack,
              accumulationOffset, writes, nthreadsArg, last>>

fileVars == <<platform, handles, regions, sections, cfd, cdata, cmap>>

vars == <<poolVars, fileVars, work>>

(***************************************************************************)
(* Pointers. A frame pointer names the array it points into and the slot.  *)
(***************************************************************************)
NoThread == -1
StackPtr(i, k) == [thread |-> i, slot |-> k]
NNUEPtr(base, k) == [base |-> base, slot |-> k]

TableNames == {"evtable", "pktable", "killers", "cmtable",
               "history", "chistory", "continuation"}
StackNames == {"_evalStack", "_moveStack", "_pieceStack"}

\* The logical indices of a frame array: STACK_OFFSET frames lie below 0.
Logical == (0 - STACK_OFFSET) .. (MaxPly - 1)

ZeroBoard == [turn |-> WHITE, hash |-> 0, st |-> NNUEPtr(NULL, 0)]
ZeroStack == [k \in Slots |-> 0]

\* One Thread as calloc leaves it: every byte zero.
ZeroThread ==
    [index |-> 0, threads |-> NULL, nthreads |-> 0,
     limits |-> NULL, info |-> NULL, contempt |-> 0,
     height |-> 0, nodes |-> U64Zero, tbhits |-> U64Zero,
     board |-> ZeroBoard,
     evtable |-> 0, pktable |-> 0, killers |-> 0, cmtable |-> 0,
     history |-> 0, chistory |-> 0, continuation |-> 0,
     _evalStack |-> ZeroStack, _moveStack |-> ZeroStack, _pieceStack |-> ZeroStack,
     evalStack |-> StackPtr(NoThread, 0), moveStack |-> StackPtr(NoThread, 0),
     pieceStack |-> StackPtr(NoThread, 0),
     _nnueStack |-> NULL, nnueStack |-> NNUEPtr(NULL, 0)]

\* One NNUEStack as posix_memalign leaves it: nothing written yet, its
\* contents neither a flag (0 or 1) nor a record of the search.
Indeterminate == -1
FreshFrame == [computedAccumulation |-> Indeterminate, accumulation |-> Indeterminate]
FreshBlock == [k \in Slots |-> FreshFrame]

(***************************************************************************)
(* The inputs of the operations.                                           *)
(***************************************************************************)
Layouts == {<<64, 0>>, <<96, 0>>, <<64, 32>>}
\* The calls of newSearchThreadPool: a position, and the addresses of the
\* caller's Limits and SearchInfo.
SearchCalls ==
    {[board |-> [turn |-> WHITE, hash |-> 1, st |-> NNUEPtr(ExtState, 0)],
      limits |-> 24, info |-> 40],
     [board |-> [turn |-> BLACK, hash |-> 2, st |-> NNUEPtr(ExtState, 0)],
      limits |-> 32, info |-> 48]}
ContemptOptions == {<<0, 0>>, <<20, 5>>, <<20, -30>>}
CounterDeltas == {U64(1)}

NoCall == [op |-> "none", board |-> ZeroBoard, limits |-> NULL, info |-> NULL,
           ret |-> U64Zero, fd |-> NULL, data |-> NULL, map |-> NULL]
Call(op) == [NoCall EXCEPT !.op = op]

\* No file is open and nothing is mapped.
NoFiles ==
    /\ platform = "posix"
    /\ handles = << >>
    /\ regions = {}
    /\ sections = {}
    /\ cfd = INVALID_HANDLE
    /\ cdata = NULL
    /\ cmap = NULL

Init ==
    /\ status = "start"
    /\ threads = << >>
    /\ heap = << >>
    /\ allocLog = << >>
    /\ freeLog = << >>
    /\ arrayFrees = 0
    /\ ContemptDrawPenalty = 0
    /\ ContemptComplexity = 0
    /\ \E l \in Layouts : sizeofNNUEStack = l[1] /\ accumulationOffset = l[2]
    /\ writes = 0
    /\ nthreadsArg = 0
    /\ last = NoCall
    /\ NoFiles
    /\ work = << >>

(***************************************************************************)
(* createThreadPool                                                        *)
(***************************************************************************)
\* &threads[i]._nnueStack[j].accumulator.accumulation, as an integer
AccumulationAddr(base, j) == base + j * sizeofNNUEStack + accumulationOffset

\* The test of the inner loop, on the first frame of one worker only.
StackAlignedFirstOnly(base) == AccumulationAddr(base, 0) % ALIGNMENT = 0

\* The test of the inner loop, over every frame of one worker.
StackAligned(base) == \A j \in Slots : AccumulationAddr(base, j) % ALIGNMENT = 0

\* The body of the outer loop without the store to index.
CreateWorkerNoIndex(i, n, mem) ==
    [ZeroThread EXCEPT
       !.evalStack = StackPtr(i, STACK_OFFSET),
       !.moveStack = StackPtr(i, STACK_OFFSET),
       !.pieceStack = StackPtr(i, STACK_OFFSET),
       !.threads = PoolAddr, !.nthreads = n,
       !._nnueStack = mem, !.nnueStack = NNUEPtr(mem, STACK_OFFSET)]

\* The body of the outer loop for worker i, mem the result of ethereal_alloc.
CreateWorker(i, n, mem) ==
    LET t1 == [ZeroThread EXCEPT
                 !.evalStack = StackPtr(i, STACK_OFFSET),
                 !.moveStack = StackPtr(i, STACK_OFFSET),
                 !.pieceStack = StackPtr(i, STACK_OFFSET),
                 !.nnueStack = NNUEPtr(ZeroThread._nnueStack, STACK_OFFSET)]
        t2 == [t1 EXCEPT !.index = i, !.threads = PoolAddr, !.nthreads = n]
    IN  [t2 EXCEPT !._nnueStack = mem, !.nnueStack = NNUEPtr(mem, STACK_OFFSET)]

\* What n calls of ethereal_alloc can return: NULL, or a block of its own
\* (the allocator hands out its blocks in address order).
BlockAddr(k) == k * ALIGNMENT * 2 * STACK_SIZE
AllocResults(n) ==
    {m \in [0 .. (n - 1) -> {BlockAddr(k) : k \in 1 .. n} \cup {NULL}] :
        \A i \in 0 .. (n - 1) : m[i] \in {NULL, BlockAddr(i + 1)}}

Min(S) == CHOOSE x \in S : \A y \in S : x <= y

\* createThreadPool(n), mem what the calls of ethereal_alloc return. A worker
\* whose frames fail the test ends the process by exit(EXIT_FAILURE), the
\* blocks of the workers before it allocated. When calloc returns NULL the
\* first store of the loop goes through a null pointer.
createThreadPool ==
    /\ status = "start"
    /\ \E n \in 1 .. MaxThreads :
         /\ nthreadsArg' = n
         /\ \/ \E mem \in AllocResults(n) :
                 LET bad == {i \in 0 .. (n - 1) : ~StackAligned(mem[i])}
                     done == IF bad = {} THEN n ELSE Min(bad) + 1
                 IN  /\ allocLog' = [k \in 1 .. done |-> mem[k - 1]]
                     /\ heap' = [a \in {mem[i] : i \in 0 .. (done - 1)} \ {NULL} |->
                                   FreshBlock]
                     /\ status' = IF bad = {} THEN "live" ELSE "exited"
                     /\ threads' = IF bad = {}
                                     THEN [i \in 0 .. (n - 1) |->
                                             CreateWorker(i, n, mem[i])]
                                     ELSE << >>
            \/ /\ status' = "crashed"
               /\ UNCHANGED <<allocLog, heap, threads>>
    /\ last' = Call("create")
    /\ UNCHANGED <<freeLog, arrayFrees, ContemptDrawPenalty, ContemptComplexity,
                   sizeofNNUEStack, accumulationOffset, writes>>
    /\ UNCHANGED fileVars
    /\ UNCHANGED work

\* threads->nthreads: the bound of every loop over the pool.
PoolSize == threads[0].nthreads
Workers == 0 .. (PoolSize - 1)

(***************************************************************************)
(* resetThreadPool                                                         *)
(***************************************************************************)
\* The seven memsets of one worker, all but the last.
ResetWorkerForgetsContinuation(t) ==
    [t EXCEPT !.evtable = 0, !.pktable = 0, !.killers = 0, !.cmtable = 0,
              !.history = 0, !.chistory = 0]

\* The seven memsets of one worker, and its counters zeroed as well.
ResetWorkerClearsCounters(t) ==
    [t EXCEPT !.evtable = 0, !.pktable = 0, !.killers = 0, !.cmtable = 0,
              !.history = 0, !.chistory = 0, !.continuation = 0,
              !.nodes = U64Zero, !.tbhits = U64Zero]

\* The seven memsets of one worker.
ResetWorker(t) ==
    [t EXCEPT !.evtable = 0, !.pktable = 0, !.killers = 0, !.cmtable = 0,
              !.history = 0, !.chistory = 0, !.continuation = 0]

resetThreadPool ==
    /\ status = "live"
    /\ threads' = [i \in DOMAIN threads |->
                     IF i \in Workers THEN ResetWorker(threads[i]) ELSE threads[i]]
    /\ last' = Call("reset")
    /\ UNCHANGED <<status, heap, allocLog, freeLog, arrayFrees, ContemptDrawPenalty,
                   ContemptComplexity, sizeofNNUEStack, accumulationOffset,
                   writes, nthreadsArg>>
    /\ UNCHANGED fileVars
    /\ UNCHANGED work

(***************************************************************************)
(* newSearchThreadPool                                                     *)
(***************************************************************************)
\* MakeScore(d + c, d), not negated for BLACK.
ContemptNoFlip(turn, d, c) == MakeScore(d + c, d)

\* MakeScore(d + c, d), negated when BLACK is to move.
Contempt(turn, d, c) ==
    LET contempt == MakeScore(d + c, d)
    IN  IF turn = BLACK THEN 0 - contempt ELSE contempt

\* The stores to one Thread, then the seven memsets of resetThreadPool.
SearchWorkerClearsTables(t, board, limits, info, contempt) ==
    ResetWorker([t EXCEPT !.limits = limits, !.info = info, !.contempt = contempt,
                          !.height = 0, !.nodes = U64Zero, !.tbhits = U64Zero,
                          !.board = [board EXCEPT !.st = t.nnueStack]])

\* The stores to one Thread, the memcpy of the position left out.
SearchWorkerKeepsBoard(t, board, limits, info, contempt) ==
    [t EXCEPT !.limits = limits, !.info = info, !.contempt = contempt,
              !.height = 0, !.nodes = U64Zero, !.tbhits = U64Zero,
              !.board.st = t.nnueStack]

\* The stores to one Thread, the store to board.st left out.
SearchWorkerKeepsState(t, board, limits, info, contempt) ==
    [t EXCEPT !.limits = limits, !.info = info, !.contempt = contempt,
              !.height = 0, !.nodes = U64Zero, !.tbhits = U64Zero,
              !.board = board]

\* The stores to one Thread.
SearchWorker(t, board, limits, info, contempt) ==
    [t EXCEPT !.limits = limits, !.info = info, !.contempt = contempt,
              !.height = 0, !.nodes = U64Zero, !.tbhits = U64Zero,
              !.board = [board EXCEPT !.st = t.nnueStack]]

\* The inner loop, from the logical start only.
ClearComputedFromOffset(block) ==
    [j \in Slots |-> IF j >= STACK_OFFSET
                       THEN [block[j] EXCEPT !.computedAccumulation = 0]
                       ELSE block[j]]

\* The inner loop: every frame of the block, its accumulation kept.
ClearComputed(block) ==
    [j \in Slots |-> [block[j] EXCEPT !.computedAccumulation = 0]]

\* The caller's Board with st bound to the accumulator frames of a worker:
\* board->st = threads[0].nnueStack.
BoardReboundByCall(board, ts) == [board EXCEPT !.st = ts[0].nnueStack]

\* The caller's Board after the call: memcpy reads it, and every store of the
\* loop goes to threads[i].
BoardAfterCall(board, ts) == board

\* A worker thread before its search: no increment begun, none finished.
IdleWork == [pc |-> "idle", reg |-> U64Zero, nodes |-> 0, tbhits |-> 0]

\* A worker without accumulator storage: the inner loop stores through NULL.
NullStorage == \E i \in Workers : threads[i]._nnueStack = NULL

newSearchThreadPool ==
    /\ status = "live"
    /\ \E call \in SearchCalls :
         LET board == call.board
             args == call
             contempt == Contempt(board.turn, ContemptDrawPenalty, ContemptComplexity)
         IN  /\ last' = [Call("newSearch") EXCEPT !.board = BoardAfterCall(board, threads),
                           !.limits = args.limits, !.info = args.info]
             /\ IF NullStorage
                  THEN /\ status' = "crashed"
                       /\ UNCHANGED <<threads, heap>>
                  ELSE /\ threads' = [i \in DOMAIN threads |->
                              IF i \in Workers
                                THEN SearchWorker(threads[i], board, args.limits,
                                                  args.info, contempt)
                                ELSE threads[i]]
                       /\ heap' = [a \in DOMAIN heap |->
                              IF \E i \in Workers : threads[i]._nnueStack = a
                                THEN ClearComputed(heap[a]) ELSE heap[a]]
                       /\ UNCHANGED status
    /\ work' = IF NullStorage THEN work ELSE [i \in Workers |-> IdleWork]
    /\ UNCHANGED <<allocLog, freeLog, arrayFrees, ContemptDrawPenalty,
                   ContemptComplexity, sizeofNNUEStack, accumulationOffset,
                   writes, nthreadsArg>>
    /\ UNCHANGED fileVars

(***************************************************************************)
(* nodesSearchedThreadPool, tbhitsThreadPool                               *)
(***************************************************************************)
RECURSIVE NodesLoop(_, _, _, _)
NodesLoop(ts, i, n, nodes) ==
    IF i >= n THEN nodes ELSE NodesLoop(ts, i + 1, n, Add64(nodes, ts[i].nodes))

RECURSIVE TbhitsLoop(_, _, _, _)
TbhitsLoop(ts, i, n, tbhits) ==
    IF i >= n THEN tbhits ELSE TbhitsLoop(ts, i + 1, n, Add64(tbhits, ts[i].tbhits))

\* The loop begun at the second worker.
NodesSearchedFromOne(ts) == NodesLoop(ts, 1, ts[0].nthreads, U64Zero)

NodesSearched(ts) == NodesLoop(ts, 0, ts[0].nthreads, U64Zero)
Tbhits(ts) == TbhitsLoop(ts, 0, ts[0].nthreads, U64Zero)

nodesSearchedThreadPool ==
    /\ status = "live"
    /\ last' = [Call("nodes") EXCEPT !.ret = NodesSearched(threads)]
    /\ UNCHANGED <<status, threads, heap, allocLog, freeLog, arrayFrees,
                   ContemptDrawPenalty, ContemptComplexity, sizeofNNUEStack,
                   accumulationOffset, writes, nthreadsArg>>
    /\ UNCHANGED fileVars
    /\ UNCHANGED work

tbhitsThreadPool ==
    /\ status = "live"
    /\ last' = [Call("tbhits") EXCEPT !.ret = Tbhits(threads)]
    /\ UNCHANGED <<status, threads, heap, allocLog, freeLog, arrayFrees,
                   ContemptDrawPenalty, ContemptComplexity, sizeofNNUEStack,
                   accumulationOffset, writes, nthreadsArg>>
    /\ UNCHANGED fileVars
    /\ UNCHANGED work

(***************************************************************************)
(* deleteThreadPool                                                        *)
(***************************************************************************)
\* The pointers the loop hands to ethereal_free, in order.
FreedPointers(ts) == [k \in 1 .. ts[0].nthreads |-> ts[k - 1]._nnueStack]

\* deleteThreadPool with a release of every mapped view and mapping object.
deleteThreadPoolUnmaps ==
    /\ status = "live"
    /\ LET freed == FreedPointers(threads)
       IN  /\ freeLog' = freeLog \o freed
           /\ heap' = [a \in DOMAIN heap \ {freed[k] : k \in DOMAIN freed} |-> heap[a]]
    /\ arrayFrees' = arrayFrees + 1
    /\ threads' = << >>
    /\ status' = "deleted"
    /\ last' = Call("delete")
    /\ regions' = {}
    /\ sections' = {}
    /\ UNCHANGED <<allocLog, ContemptDrawPenalty, ContemptComplexity, sizeofNNUEStack,
                   accumulationOffset, writes, nthreadsArg>>
    /\ work' = << >>
    /\ UNCHANGED <<platform, handles, cfd, cdata, cmap>>

deleteThreadPool ==
    /\ status = "live"
    /\ LET freed == FreedPointers(threads)
       IN  /\ freeLog' = freeLog \o freed
           /\ heap' = [a \in DOMAIN heap \ {freed[k] : k \in DOMAIN freed} |-> heap[a]]
    /\ arrayFrees' = arrayFrees + 1
    /\ threads' = << >>
    /\ status' = "deleted"
    /\ last' = Call("delete")
    /\ work' = << >>
    /\ UNCHANGED <<allocLog, ContemptDrawPenalty, ContemptComplexity, sizeofNNUEStack,
                   accumulationOffset, writes, nthreadsArg>>
    /\ UNCHANGED fileVars

(***************************************************************************)
(* The UCI options that set the contempt values, given before the first    *)
(* search.                                                                 *)
(***************************************************************************)
SetContempt ==
    /\ status = "start" \/ (status = "live" /\ threads[0].limits = NULL)
    /\ \E o \in ContemptOptions :
         /\ <<ContemptDrawPenalty, ContemptComplexity>> # o
         /\ ContemptDrawPenalty' = o[1]
         /\ ContemptComplexity' = o[2]
    /\ last' = Call("setoption")
    /\ UNCHANGED <<status, threads, heap, allocLog, freeLog, arrayFrees,
                   sizeofNNUEStack, accumulationOffset, writes, nthreadsArg>>
    /\ UNCHANGED fileVars
    /\ UNCHANGED work

(***************************************************************************)
(* The search of one worker, between newSearchThreadPool and the barrier:  *)
(* it writes its own Thread and its own accumulator block only.            *)
(***************************************************************************)
\* A worker searches once newSearchThreadPool has given it its limits.
Searching == status = "live" /\ threads[0].limits # NULL /\ writes < MaxWrites

\* What a worker stores: some record that is not all-zero.
Record(i) == i + 1

SearchStep(i, t) ==
    /\ threads' = [threads EXCEPT ![i] = t]
    /\ writes' = writes + 1
    /\ last' = Call("search")
    /\ UNCHANGED <<status, heap, allocLog, freeLog, arrayFrees, ContemptDrawPenalty,
                   ContemptComplexity, sizeofNNUEStack, accumulationOffset,
                   nthreadsArg>>
    /\ UNCHANGED fileVars
    /\ UNCHANGED work

SearchNode ==
    /\ Searching
    /\ \E i \in Workers : \E d \in CounterDeltas :
         SearchStep(i, [threads[i] EXCEPT !.nodes = Add64(@, d)])

SearchTbhit ==
    /\ Searching
    /\ \E i \in Workers : \E d \in CounterDeltas :
         SearchStep(i, [threads[i] EXCEPT !.tbhits = Add64(@, d)])

SearchHeight ==
    /\ Searching
    /\ \E i \in Workers : \E h \in 1 .. MaxPly :
         SearchStep(i, [threads[i] EXCEPT !.height = h])

SearchTable ==
    /\ Searching
    /\ \E i \in Workers : \E name \in TableNames :
         SearchStep(i, [threads[i] EXCEPT ![name] = Record(i)])

\* A store through evalStack, moveStack or pieceStack at logical index k.
SearchFrame ==
    /\ Searching
    /\ \E i \in Workers : \E k \in Logical :
         \/ SearchStep(i, [threads[i] EXCEPT
                !._evalStack[threads[i].evalStack.slot + k] = Record(i)])
         \/ SearchStep(i, [threads[i] EXCEPT
                !._moveStack[threads[i].moveStack.slot + k] = Record(i)])
         \/ SearchStep(i, [threads[i] EXCEPT
                !._pieceStack[threads[i].pieceStack.slot + k] = Record(i)])

\* A store through nnueStack at logical index k: the accumulator is computed.
SearchAccumulate ==
    /\ Searching
    /\ \E i \in Workers : \E k \in Logical :
         LET p == threads[i].nnueStack
         IN  heap' = [heap EXCEPT ![p.base][p.slot + k] =
                        [computedAccumulation |-> 1, accumulation |-> Record(i)]]
    /\ writes' = writes + 1
    /\ last' = Call("search")
    /\ UNCHANGED <<status, threads, allocLog, freeLog, arrayFrees, ContemptDrawPenalty,
                   ContemptComplexity, sizeofNNUEStack, accumulationOffset,
                   nthreadsArg>>
    /\ UNCHANGED fileVars
    /\ UNCHANGED work

Next ==
    \/ createThreadPool
    \/ resetThreadPool
    \/ newSearchThreadPool
    \/ nodesSearchedThreadPool
    \/ tbhitsThreadPool
    \/ deleteThreadPool
    \/ SetContempt
    \/ SearchNode
    \/ SearchTbhit
    \/ SearchHeight
    \/ SearchTable
    \/ SearchFrame
    \/ SearchAccumulate

Spec == Init /\ [][Next]_vars

(***************************************************************************)
(* The worker threads between newSearchThreadPool and the barrier, counter *)
(* by counter: thread->nodes++ and thread->tbhits++ are a load and a store *)
(* of the thread's own counter, and the threads run in any interleaving.   *)
(* The sums are taken when every thread has stopped.                       *)
(***************************************************************************)
Counters == {"nodes", "tbhits"}

\* The increments the threads i .. n - 1 have begun since newSearchThreadPool.
RECURSIVE Begun(_, _)
Begun(i, n) ==
    IF i >= n THEN 0
    ELSE work[i].nodes + work[i].tbhits
         + (IF work[i].pc = "idle" THEN 0 ELSE 1) + Begun(i + 1, n)

\* The increments of one counter the threads i .. n - 1 have finished.
RECURSIVE Finished(_, _, _)
Finished(counter, i, n) ==
    IF i >= n THEN 0 ELSE work[i][counter] + Finished(counter, i + 1, n)

\* Every thread has stopped: the barrier of the controlling process.
Quiescent == \A i \in DOMAIN work : work[i].pc = "idle"

\* The first half of counter++: thread i loads its own counter.
IncrementLoad ==
    /\ status = "live"
    /\ threads[0].limits # NULL
    /\ Begun(0, PoolSize) < MaxIncrements
    /\ \E i \in Workers : \E counter \in Counters :
         /\ work[i].pc = "idle"
         /\ work' = [work EXCEPT ![i].pc = counter, ![i].reg = threads[i][counter]]
    /\ last' = Call("search")
    /\ UNCHANGED <<status, threads, heap, allocLog, freeLog, arrayFrees,
                   ContemptDrawPenalty, ContemptComplexity, sizeofNNUEStack,
                   accumulationOffset, writes, nthreadsArg>>
    /\ UNCHANGED fileVars

\* The second half of counter++: thread i stores the value it loaded, plus one.
IncrementStore ==
    /\ status = "live"
    /\ \E i \in Workers :
         LET counter == work[i].pc
         IN  /\ counter # "idle"
             /\ threads' = [threads EXCEPT ![i][counter] = Add64(work[i].reg, U64(1))]
             /\ work' = [work EXCEPT ![i].pc = "idle", ![i][counter] = @ + 1]
    /\ last' = Call("search")
    /\ UNCHANGED <<status, heap, allocLog, freeLog, arrayFrees,
                   ContemptDrawPenalty, ContemptComplexity, sizeofNNUEStack,
                   accumulationOffset, writes, nthreadsArg>>
    /\ UNCHANGED fileVars

\* A pool of n workers as createThreadPool returns it, its threads not begun.
InitCount ==
    /\ status = "live"
    /\ \E n \in 1 .. MaxThreads :
         /\ nthreadsArg = n
         /\ threads = [i \in 0 .. (n - 1) |-> CreateWorker(i, n, BlockAddr(i + 1))]
         /\ allocLog = [k \in 1 .. n |-> BlockAddr(k)]
         /\ heap = [a \in {BlockAddr(k) : k \in 1 .. n} |-> FreshBlock]
         /\ work = [i \in 0 .. (n - 1) |-> IdleWork]
    /\ freeLog = << >>
    /\ arrayFrees = 0
    /\ ContemptDrawPenalty = 0
    /\ ContemptComplexity = 0
    /\ sizeofNNUEStack = 64
    /\ accumulationOffset = 0
    /\ writes = 0
    /\ last = Call("create")
    /\ NoFiles

NextCount ==
    \/ Quiescent /\ newSearchThreadPool
    \/ IncrementLoad
    \/ IncrementStore
    \/ Quiescent /\ nodesSearchedThreadPool
    \/ Quiescent /\ tbhitsThreadPool

SpecCount == InitCount /\ [][NextCount]_vars

(***************************************************************************)
(* The mapped file reader of misc.c. Its caller keeps the FD that          *)
(* open_file returned in cfd, and the pointer and the map_t that map_file  *)
(* returned in cdata and cmap.                                             *)
(***************************************************************************)
Platforms == {"posix", "win32"}
\* The files there are, and their lengths in bytes; any other path is missing.
FileLengths == [empty |-> 0, data |-> 2]
Paths == {"empty", "data", "missing"}
FileHandles == 3 .. (2 + MaxHandles)
SectionHandles == 11 .. (10 + MaxRegions)
RegionAddrs == {k * PageSize : k \in 1 .. MaxRegions}
\* What an uninitialized struct stat or sizeHigh can make of a size.
GarbageSizes == IF platform = "posix" THEN {0, 3} ELSE {3}
MapTokens == {NULL, 2, 3} \cup SectionHandles

poolState == <<status, threads, heap, allocLog, freeLog, arrayFrees,
               ContemptDrawPenalty, ContemptComplexity, sizeofNNUEStack,
               accumulationOffset, writes, nthreadsArg, work>>

Open(fd) == fd \in DOMAIN handles
Length(fd) == FileLengths[handles[fd]]
Pages(len) == (len + PageSize - 1) \div PageSize

\* open(name, O_RDONLY), CreateFile(name, ...): the lowest free handle, or the
\* invalid one for a missing file or when no handle is left.
OpenResult(name) ==
    LET free == FileHandles \ DOMAIN handles
    IN  IF name \in DOMAIN FileLengths /\ free # {} THEN Min(free) ELSE INVALID_HANDLE

open_file ==
    /\ \E name \in Paths :
         LET fd == OpenResult(name)
         IN  /\ handles' = IF fd = INVALID_HANDLE THEN handles
                           ELSE [h \in DOMAIN handles \cup {fd} |->
                                   IF h = fd THEN name ELSE handles[h]]
             /\ cfd' = fd
             /\ last' = [Call("open") EXCEPT !.fd = fd]
    /\ UNCHANGED <<platform, regions, sections, cdata, cmap>>
    /\ UNCHANGED poolState

close_file ==
    /\ handles' = [h \in DOMAIN handles \ {cfd} |-> handles[h]]
    /\ last' = [Call("close") EXCEPT !.fd = cfd]
    /\ UNCHANGED <<platform, regions, sections, cfd, cdata, cmap>>
    /\ UNCHANGED poolState

\* What file_size(fd) can return: the length of the file, or, for a handle
\* that is not open, what fstat or GetFileSize left unset.
FileSizes(fd) == IF Open(fd) THEN {Length(fd)} ELSE GarbageSizes

file_size ==
    /\ \E size \in FileSizes(cfd) :
         last' = [Call("size") EXCEPT !.fd = cfd, !.ret = U64(size)]
    /\ UNCHANGED fileVars
    /\ UNCHANGED poolState

\* mmap(NULL, size, PROT_READ, MAP_SHARED, fd, 0): MAP_FAILED for a handle that
\* is not open, for size 0 and when no address is left, else a new region.
MmapResults(fd, size) ==
    LET free == RegionAddrs \ {r.addr : r \in regions}
    IN  IF ~Open(fd) \/ size = 0 \/ free = {} THEN {MAP_FAILED}
        ELSE {MAP_FAILED, Min(free)}

\* data == MAP_FAILED ? NULL : data
MapReturn(data) == IF data = MAP_FAILED THEN NULL ELSE data

\* CreateFileMapping(fd, NULL, PAGE_READONLY, sizeHigh, sizeLow, NULL): NULL for
\* an empty file and for a handle that is not open; for INVALID_HANDLE_VALUE a
\* section backed by the paging file, of the size GetFileSize left.
CreateFileMappingResults(fd) ==
    LET free == SectionHandles \ sections
        made == IF free = {} THEN {} ELSE {Min(free)}
    IN  IF Open(fd) THEN (IF Length(fd) = 0 THEN {NULL} ELSE {NULL} \cup made)
        ELSE IF fd = INVALID_HANDLE THEN {NULL} \cup made
        ELSE {NULL}

\* MapViewOfFile(section, FILE_MAP_READ, 0, 0, 0): NULL, or a new view.
MapViewResults ==
    LET free == RegionAddrs \ {r.addr : r \in regions}
    IN  IF free = {} THEN {NULL} ELSE {NULL, Min(free)}

\* map_file(fd, &map): what it returns, what it leaves in map, and the views
\* and sections there are after it.
MapOutcomes(fd) ==
    IF platform = "posix"
      THEN {[data |-> MapReturn(d), map |-> size,
             regions |-> IF d = MAP_FAILED THEN regions
                         ELSE regions \cup {[addr |-> d, len |-> size, section |-> NULL]},
             sections |-> sections] :
              <<size, d>> \in {sd \in FileSizes(fd) \X (RegionAddrs \cup {MAP_FAILED}) :
                                 sd[2] \in MmapResults(fd, sd[1])}}
      ELSE {[data |-> NULL, map |-> NULL, regions |-> regions, sections |-> sections] :
              sec \in CreateFileMappingResults(fd) \cap {NULL}}
           \cup
           {[data |-> SV[2], map |-> SV[1],
             regions |-> IF SV[2] = NULL THEN regions
                         ELSE regions \cup {[addr |-> SV[2],
                                             len |-> IF Open(fd) THEN Length(fd) ELSE 3,
                                             section |-> SV[1]]},
             sections |-> sections \cup {SV[1]}] :
              SV \in (CreateFileMappingResults(fd) \ {NULL}) \X MapViewResults}

map_file ==
    /\ \E out \in MapOutcomes(cfd) :
         /\ cdata' = out.data
         /\ cmap' = out.map
         /\ regions' = out.regions
         /\ sections' = out.sections
         /\ last' = [Call("map") EXCEPT !.fd = cfd, !.data = out.data, !.map = out.map]
    /\ UNCHANGED <<platform, handles, cfd>>
    /\ UNCHANGED poolState

\* The view released, the mapping object left open.
ReleaseViewOnly(data, map) ==
    [regions |-> {r \in regions : r.addr # data}, sections |-> sections]

\* munmap(data, map), or UnmapViewOfFile(data) and CloseHandle(map): the views
\* and sections there are after it.
Release(data, map) ==
    IF platform = "posix"
      THEN [regions |->
              {r \in regions : r.addr # data \/ map = 0}
              \cup {[addr |-> r.addr + Pages(map) * PageSize,
                     len |-> r.len - Pages(map) * PageSize, section |-> NULL] :
                      r \in {q \in regions : q.addr = data /\ map > 0
                                             /\ Pages(map) < Pages(q.len)}},
            sections |-> sections]
      ELSE [regions |-> {r \in regions : r.addr # data},
            sections |-> sections \ {map}]

\* unmap_file without its first line.
UnmapUnguarded(data, map) == Release(data, map)

\* unmap_file(data, map)
Unmap(data, map) ==
    IF data = NULL THEN [regions |-> regions, sections |-> sections]
    ELSE Release(data, map)

\* The caller releases what it holds, or calls with a null pointer and any map.
unmap_file ==
    /\ \E args \in {<<cdata, cmap>>} \cup {<<NULL, m>> : m \in MapTokens} :
         LET out == Unmap(args[1], args[2])
         IN  /\ regions' = out.regions
             /\ sections' = out.sections
             /\ last' = [Call("unmap") EXCEPT !.data = args[1], !.map = args[2]]
    /\ UNCHANGED <<platform, handles, cfd, cdata, cmap>>
    /\ UNCHANGED poolState

InitFile ==
    /\ status = "start"
    /\ threads = << >>
    /\ heap = << >>
    /\ allocLog = << >>
    /\ freeLog = << >>
    /\ arrayFrees = 0
    /\ ContemptDrawPenalty = 0
    /\ ContemptComplexity = 0
    /\ sizeofNNUEStack = 64
    /\ accumulationOffset = 0
    /\ writes = 0
    /\ nthreadsArg = 0
    /\ last = NoCall
    /\ platform \in Platforms
    /\ handles = << >>
    /\ regions = {}
    /\ sections = {}
    /\ cfd = INVALID_HANDLE
    /\ cdata = NULL
    /\ cmap = NULL
    /\ work = << >>

NextFile ==
    \/ open_file
    \/ map_file
    \/ unmap_file
    \/ close_file
    \/ file_size

SpecFile == InitFile /\ [][NextFile]_vars

\* C10: unmap_file with a null data pointer does nothing, whatever the map
\* token: no view is released, no section and no file handle is closed.
UnmapNullIsNoOp ==
    [][(last'.op = "unmap" /\ last'.data = NULL) =>
         (regions' = regions /\ sections' = sections /\ handles' = handles)]_vars

\* unmap_file by the caller after a map_file that failed and left a token.
UnmapAfterFailedMap ==
    /\ last.op = "unmap"
    /\ last.data = NULL
    /\ cdata = NULL
    /\ last.map = cmap
    /\ cmap # NULL

\* The length of the file behind fd, 0 when fd is no open handle.
SizeOf(fd) == IF Open(fd) THEN Length(fd) ELSE 0

\* C11: map_file returns NULL whenever the mapping cannot be established, a
\* file of length 0 and the invalid handle of a missing path included: it
\* never returns MAP_FAILED or another non-null pointer then, and it leaves no
\* view and no mapping object behind.
MapFailureIsNull ==
    [][last'.op = "map" =>
         /\ last'.data # MAP_FAILED
         /\ (SizeOf(cfd) = 0) => (last'.data = NULL)
         /\ (last'.data = NULL) => (regions' = regions /\ sections' = sections)]_vars

(***************************************************************************)
(* The caller that keeps to the order open, map, unmap, close, may ask for  *)
(* the size of the file it has opened, and gives unmap_file the pointer    *)
(* and the map_t that map_file gave it.                                    *)
(***************************************************************************)
NextRound ==
    \/ last.op \in {"none", "close"} /\ open_file
    \/ last.op = "open" /\ file_size
    \/ last.op \in {"open", "size"} /\ map_file
    \/ last.op = "map" /\ unmap_file /\ last'.data = cdata /\ last'.map = cmap
    \/ last.op = "unmap" /\ close_file

SpecRound == InitFile /\ [][NextRound]_vars

\* The view map_file has returned to the caller.
Mapped == {r \in regions : r.addr = cdata}

\* unmap_file in its place of the round trip releases the view, and with it
\* the mapping object of the view, and nothing else.
UnmapStep ==
    (last.op = "map" /\ last'.op = "unmap" /\ Open(cfd) /\ cdata # NULL) =>
        /\ Mapped # {}
        /\ regions' = regions \ Mapped
        /\ sections' = sections \ {r.section : r \in Mapped}
        /\ handles' = handles

\* close_file in its place of the round trip closes the handle, nothing else.
CloseStep ==
    (last.op = "unmap" /\ last'.op = "close" /\ Open(cfd)) =>
        /\ DOMAIN handles' = DOMAIN handles \ {cfd}
        /\ regions' = regions
        /\ sections' = sections

\* After the round trip nothing of it is left.
RoundTripDone ==
    (last.op = "close" /\ cfd # INVALID_HANDLE /\ cdata # NULL) =>
        /\ regions = {}
        /\ handles = << >>
        /\ platform = "win32" => cmap \notin sections

\* file_size reports the length of the file the caller has opened.
SizeReported ==
    (last.op = "size" /\ Open(cfd)) => last.ret = U64(Length(cfd))

\* C12 as stated: for a file of size S > 0, open_file and map_file give a view
\* of exactly S bytes and leave S in the map_t; unmap_file with that pointer
\* and map_t releases exactly that view, close_file closes the handle, and
\* after open, map, unmap, close no view, no mapping object and no handle of
\* the sequence is left, each released once.
RoundTripRecordsSize ==
    /\ []((last.op = "map" /\ Open(cfd) /\ cdata # NULL) =>
            /\ Length(cfd) > 0
            /\ \E r \in regions : Mapped = {r} /\ r.len = Length(cfd)
            /\ cmap = Length(cfd))
    /\ []SizeReported
    /\ [][UnmapStep]_vars
    /\ [][CloseStep]_vars
    /\ []RoundTripDone

\* C12 amended: the map_t holds S in the POSIX build and the handle of the
\* mapping object in the Windows build; the rest as stated.
RoundTripReleases ==
    /\ []((last.op = "map" /\ Open(cfd) /\ cdata # NULL) =>
            /\ Length(cfd) > 0
            /\ \E r \in regions :
                 /\ Mapped = {r}
                 /\ r.len = Length(cfd)
                 /\ IF platform = "posix" THEN cmap = Length(cfd)
                    ELSE cmap = r.section /\ cmap \in sections)
    /\ []SizeReported
    /\ [][UnmapStep]_vars
    /\ [][CloseStep]_vars
    /\ []RoundTripDone

\* A round trip of the Windows build that has mapped the file and closed it.
RoundTripClosed ==
    /\ last.op = "close"
    /\ platform = "win32"
    /\ cfd # INVALID_HANDLE
    /\ cdata # NULL
    /\ cmap \in SectionHandles
    /\ regions = {}

(***************************************************************************)
(* The process from start to shutdown: it creates the pool, opens and maps *)
(* files while the pool is there, and deletes the pool.                    *)
(***************************************************************************)
NextProcess ==
    \/ createThreadPool
    \/ status = "live" /\ open_file
    \/ status = "live" /\ map_file
    \/ status = "live" /\ unmap_file
    \/ deleteThreadPool

SpecProcess == InitFile /\ [][NextProcess]_vars

\* C13 as stated: when deleteThreadPool has returned, no region mapped by
\* map_file is live.
DestroyReleasesMapped == status = "deleted" => regions = {}

\* C13 amended: deleteThreadPool releases the accumulator storage of the
\* workers and the Thread array and nothing of the mapped file reader: the
\* views, the mapping objects and the file handles are after it what they
\* were before it.
DestroyLeavesMapped ==
    [][last'.op = "delete" =>
         /\ regions' = regions
         /\ sections' = sections
         /\ handles' = handles
         /\ DOMAIN heap' = {}
         /\ arrayFrees' = arrayFrees + 1]_vars

\* A pool deleted while a view of a file was mapped.
DeletedWithMappedFile ==
    /\ status = "deleted"
    /\ \E r \in regions : r.addr = cdata /\ r.len = FileLengths.data

(***************************************************************************)
(* What the properties read of the state.                                  *)
(***************************************************************************)
\* The operation op has run last and has returned to its caller.
Returned(op) == status = "live" /\ last.op = op
Block(i) == heap[threads[i]._nnueStack]
Tables(t) == [name \in TableNames |-> t[name]]
TablesZero == \A i \in Workers : \A name \in TableNames : threads[i][name] = 0
Range(f) == {f[k] : k \in DOMAIN f}

(***************************************************************************)
(* The aggregation over quiescent pools: a pool of n workers after a       *)
(* search, its counters drawn from NodeCounts and TbhitCounts, and the two *)
(* sums taken of it.                                                       *)
(***************************************************************************)
NodeCounts == {U64(0), U64(3), U64(7), U64(10), U64Max}
TbhitCounts == {U64(0), U64High}
FirstCall == CHOOSE call \in SearchCalls : call.board.turn = WHITE

SearchedWorker(i, n, nodes, tbhits) ==
    [SearchWorker(CreateWorker(i, n, BlockAddr(i + 1)), FirstCall.board,
                  FirstCall.limits, FirstCall.info,
                  Contempt(FirstCall.board.turn, 0, 0))
       EXCEPT !.nodes = nodes, !.tbhits = tbhits]

InitAgg ==
    /\ status = "live"
    /\ \E n \in 1 .. MaxAggThreads :
         /\ nthreadsArg = n
         /\ \E c \in [0 .. (n - 1) -> NodeCounts] : \E h \in [0 .. (n - 1) -> TbhitCounts] :
              threads = [i \in 0 .. (n - 1) |-> SearchedWorker(i, n, c[i], h[i])]
         /\ allocLog = [k \in 1 .. n |-> BlockAddr(k)]
         /\ heap = [a \in {BlockAddr(k) : k \in 1 .. n} |-> ClearComputed(FreshBlock)]
    /\ freeLog = << >>
    /\ arrayFrees = 0
    /\ ContemptDrawPenalty = 0
    /\ ContemptComplexity = 0
    /\ sizeofNNUEStack = 64
    /\ accumulationOffset = 0
    /\ writes = 0
    /\ last = [Call("newSearch") EXCEPT !.board = FirstCall.board,
                 !.limits = FirstCall.limits, !.info = FirstCall.info]
    /\ NoFiles
    /\ work = << >>

NextAgg ==
    \/ nodesSearchedThreadPool
    \/ tbhitsThreadPool

SpecAgg == InitAgg /\ [][NextAgg]_vars

\* The sum of the k-th limbs of the workers i .. n - 1, as an integer.
RECURSIVE LimbTotal(_, _, _, _)
LimbTotal(counts, k, i, n) ==
    IF i >= n THEN 0 ELSE counts[i][k] + LimbTotal(counts, k, i + 1, n)

\* The integer sum of the counters modulo 2^64, limb by limb: the carries are
\* taken once, from the totals, and the carry out of the top limb is dropped.
SumMod64(counts, n) ==
    LET t1 == LimbTotal(counts, 1, 0, n)
        t2 == LimbTotal(counts, 2, 0, n) + (t1 \div LimbBase)
        t3 == LimbTotal(counts, 3, 0, n) + (t2 \div LimbBase)
        t4 == LimbTotal(counts, 4, 0, n) + (t3 \div LimbBase)
    IN  <<t1 % LimbBase, t2 % LimbBase, t3 % LimbBase, t4 % LimbBase>>

\* C3: over a quiescent pool nodesSearchedThreadPool returns the sum of the
\* nodes counters of all n workers and tbhitsThreadPool the sum of their
\* tbhits counters, each modulo 2^64.
AggregatesAreSums ==
    /\ Returned("nodes") =>
         last.ret = SumMod64([i \in Workers |-> threads[i].nodes], nthreadsArg)
    /\ Returned("tbhits") =>
         last.ret = SumMod64([i \in Workers |-> threads[i].tbhits], nthreadsArg)

\* Four workers with the counters 10, 0, 7 and 3: the total is 20.
FourWorkersTotalTwenty ==
    /\ Returned("nodes")
    /\ nthreadsArg = 4
    /\ [i \in Workers |-> threads[i].nodes] =
          (0 :> U64(10)) @@ (1 :> U64(0)) @@ (2 :> U64(7)) @@ (3 :> U64(3))
    /\ last.ret = U64(20)

(***************************************************************************)
(* Properties of the thread pool.                                          *)
(***************************************************************************)

\* C1: when newSearchThreadPool has returned, every worker has nodes = 0,
\* tbhits = 0 and height = 0, and the computedAccumulation flag of every one of
\* its STACK_SIZE accumulator frames, the padding frames included, is false,
\* whatever was created, reset, searched and written before.
SearchStartResets ==
    Returned("newSearch") =>
        \A i \in Workers :
            /\ threads[i].nodes = U64Zero
            /\ threads[i].tbhits = U64Zero
            /\ threads[i].height = 0
            /\ \A j \in Slots : Block(i)[j].computedAccumulation = 0

\* A search start after a search that had computed an accumulator.
SearchStartAfterSearch ==
    /\ Returned("newSearch")
    /\ writes > 0
    /\ \E i \in Workers : \E j \in Slots :
         /\ Block(i)[j].accumulation # Indeterminate
         /\ Block(i)[j].computedAccumulation = 0

\* C2: createThreadPool(n) followed by deleteThreadPool has made exactly n
\* aligned allocations and exactly n frees, each free releasing a block that
\* create allocated and no block freed twice, has freed the Thread array
\* once, and leaves no block of create live.
CreateDestroySymmetric ==
    status = "deleted" =>
        /\ Len(allocLog) = nthreadsArg
        /\ Len(freeLog) = nthreadsArg
        /\ \A k \in DOMAIN allocLog : allocLog[k] # NULL
        /\ \A k \in DOMAIN freeLog : freeLog[k] # NULL /\ freeLog[k] \in Range(allocLog)
        /\ \A k, l \in DOMAIN freeLog : k # l => freeLog[k] # freeLog[l]
        /\ arrayFrees = 1
        /\ DOMAIN heap = {}

\* C4: newSearchThreadPool stores the same contempt in every worker: with
\* WHITE to move its components are d + c and d, with BLACK to move it is the
\* negation of that score, components -(d + c) and -d, for the configured
\* draw penalty d and complexity c.
ContemptStored ==
    Returned("newSearch") =>
        LET d == ContemptDrawPenalty
            c == ContemptComplexity
        IN  \A i \in Workers :
              LET s == threads[i].contempt
              IN  IF last.board.turn = WHITE
                    THEN ScoreMG(s) = d + c /\ ScoreEG(s) = d
                    ELSE /\ s = 0 - MakeScore(d + c, d)
                         /\ ScoreMG(s) = 0 - (d + c)
                         /\ ScoreEG(s) = 0 - d

\* Draw penalty 20, complexity 5: (25, 20) for WHITE.
ContemptExampleWhite ==
    /\ Returned("newSearch")
    /\ last.board.turn = WHITE
    /\ ContemptDrawPenalty = 20 /\ ContemptComplexity = 5
    /\ \A i \in Workers :
         ScoreMG(threads[i].contempt) = 25 /\ ScoreEG(threads[i].contempt) = 20

\* C5: after resetThreadPool the seven tables of every worker are all-zero,
\* and a call of resetThreadPool right after another changes nothing of the
\* pool.
ResetIdempotent ==
    /\ [](Returned("reset") => TablesZero)
    /\ [][(last.op = "reset" /\ last'.op = "reset") =>
            (threads' = threads /\ heap' = heap /\ status' = status)]_vars

\* A reset after a search has written.
ResetAfterSearch == Returned("reset") /\ writes > 0 /\ TablesZero

\* C6: newSearchThreadPool, nodesSearchedThreadPool and tbhitsThreadPool
\* leave the seven tables of every worker as they were, and a table that was
\* written becomes all-zero by resetThreadPool only.
TablesSurviveSearchStart ==
    [][(status = "live" /\ status' = "live") =>
         /\ (last'.op \in {"newSearch", "nodes", "tbhits"} =>
               \A i \in Workers : Tables(threads'[i]) = Tables(threads[i]))
         /\ ((\E i \in Workers : \E name \in TableNames :
                 threads[i][name] # 0 /\ threads'[i][name] = 0) =>
               last'.op = "reset")]_vars

\* A search start that finds a table written by the search before it.
WrittenTableAtSearchStart ==
    /\ Returned("newSearch")
    /\ \E i \in Workers : \E name \in TableNames : threads[i][name] # 0

StackWritten(t) ==
    \E name \in StackNames : \E j \in Slots : t[name][j] # 0

\* C7 as stated: when newSearchThreadPool has returned, the position of every
\* worker is the given one and none of its four frame arrays holds a record
\* written by an earlier search.
FramesReinitialized ==
    Returned("newSearch") =>
        \A i \in Workers :
            /\ threads[i].board.turn = last.board.turn
            /\ threads[i].board.hash = last.board.hash
            /\ ~StackWritten(threads[i])
            /\ \A j \in Slots : Block(i)[j].accumulation = Indeterminate

\* C7 amended: when newSearchThreadPool has returned, the position of every
\* worker is the given one with its state pointer set to the worker's own
\* accumulator frames, and every computedAccumulation flag is false; the call
\* leaves the records of the evaluation, move and piece frames and the
\* accumulations as they were.
PositionReinitialized ==
    /\ [](Returned("newSearch") =>
            \A i \in Workers :
                /\ threads[i].board = [last.board EXCEPT !.st = threads[i].nnueStack]
                /\ \A j \in Slots : Block(i)[j].computedAccumulation = 0)
    /\ [][(status = "live" /\ status' = "live" /\ last'.op = "newSearch") =>
            \A i \in Workers :
                /\ \A name \in StackNames : threads'[i][name] = threads[i][name]
                /\ \A j \in Slots :
                     heap'[threads[i]._nnueStack][j].accumulation = Block(i)[j].accumulation]_vars

\* A search start that finds a frame record of the search before it.
StaleFrameAtSearchStart ==
    /\ Returned("newSearch")
    /\ \E i \in Workers : StackWritten(threads[i])

\* C8: createThreadPool ends the process, or returns a pool in which the
\* accumulation of every frame of every worker lies at a multiple of 64; it
\* ends the process, returning no pool, when a frame does not.
AlignedOrTerminated ==
    /\ status = "live" =>
         \A i \in Workers : \A j \in Slots :
             AccumulationAddr(threads[i]._nnueStack, j) % ALIGNMENT = 0
    /\ status = "exited" =>
         /\ threads = << >>
         /\ \E j \in Slots :
              AccumulationAddr(allocLog[Len(allocLog)], j) % ALIGNMENT # 0

\* The process ended on a frame other than the first of its block.
TerminatedOnLaterFrame ==
    /\ status = "exited"
    /\ AccumulationAddr(allocLog[Len(allocLog)], 0) % ALIGNMENT = 0

\* C9: when calloc or ethereal_alloc returns NULL, createThreadPool aborts: it
\* does not go on with a null Thread array, and returns no worker whose
\* accumulator storage is null.
AllocFailureAborts ==
    /\ status # "crashed" \/ last.op # "create"
    /\ status = "live" => \A i \in Workers : threads[i]._nnueStack # NULL

\* C14: while every worker thread increments only its own nodes and tbhits,
\* in any interleaving with the other threads, each counter holds at every
\* moment the increments its own thread has finished since
\* newSearchThreadPool (none is lost, none comes from another thread), and
\* when the threads have stopped nodesSearchedThreadPool and tbhitsThreadPool
\* return the number of increments of all threads since then.
CountersIsolated ==
    status = "live" =>
        /\ \A i \in Workers : \A counter \in Counters :
               threads[i][counter] = U64(work[i][counter])
        /\ Returned("nodes") => last.ret = U64(Finished("nodes", 0, nthreadsArg))
        /\ Returned("tbhits") => last.ret = U64(Finished("tbhits", 0, nthreadsArg))

\* The sum of the nodes of two threads that have each counted.
TwoThreadsCounted ==
    /\ Returned("nodes")
    /\ nthreadsArg = 2
    /\ \A i \in Workers : work[i].nodes >= 1
    /\ \E i \in Workers : work[i].tbhits >= 1
    /\ last.ret = U64(work[0].nodes + work[1].nodes)

\* C15: from createThreadPool(n) to deleteThreadPool, whatever is reset,
\* searched and summed between them, worker i has index = i, nthreads = n and
\* threads = the Thread array, so the count every loop reads of worker 0 is n.
PoolFieldsFixed ==
    status = "live" =>
        /\ DOMAIN threads = 0 .. (nthreadsArg - 1)
        /\ PoolSize = nthreadsArg
        /\ \A i \in DOMAIN threads :
             /\ threads[i].index = i
             /\ threads[i].nthreads = nthreadsArg
             /\ threads[i].threads = PoolAddr

\* The second worker of a pool that was searched, written and reset.
SecondWorkerAfterReset ==
    /\ Returned("reset")
    /\ writes > 0
    /\ nthreadsArg = 2
    /\ threads[1].index = 1

\* C16: once newSearchThreadPool has returned, the st of the position of
\* worker i points at the logical start, slot STACK_OFFSET, of the accumulator
\* frames of worker i: it is not the st of the position passed in, and the
\* st of two workers point into different arrays.
StateBoundToOwnFrames ==
    (status = "live" /\ threads[0].limits # NULL) =>
        \A i \in Workers :
            /\ threads[i].board.st = NNUEPtr(threads[i]._nnueStack, STACK_OFFSET)
            /\ threads[i]._nnueStack \in DOMAIN heap
            /\ threads[i].board.st # NNUEPtr(ExtState, 0)
            /\ \A j \in Workers \ {i} :
                 threads[i].board.st.base # threads[j].board.st.base

\* Two workers with their positions after a search start.
TwoWorkersBound ==
    /\ Returned("newSearch")
    /\ nthreadsArg = 2
    /\ threads[0].board.st.base = BlockAddr(1)
    /\ threads[1].board.st.base = BlockAddr(2)
    /\ threads[0].board.hash = threads[1].board.hash

\* The physical slot that logical index k of a frame pointer resolves to.
Resolve(p, k) == p.slot + k

\* C17: in a pool createThreadPool has returned, logical index k of each of
\* the four frame arrays of a worker is slot k + STACK_OFFSET of the storage
\* of that worker: every logical index from -STACK_OFFSET up to
\* STACK_SIZE - STACK_OFFSET - 1 is a record of the array, two indices are two
\* records, and index -1 is a record other than index 0; of the accumulator
\* array too, whose storage is the block ethereal_alloc gave.
LogicalResolvesInBounds ==
    status = "live" =>
        \A i \in Workers :
            LET t == threads[i]
            IN  /\ \A p \in {t.evalStack, t.moveStack, t.pieceStack} : p.thread = i
                /\ t.nnueStack.base = t._nnueStack
                /\ t._nnueStack \in DOMAIN heap
                /\ \A p \in {t.evalStack, t.moveStack, t.pieceStack, t.nnueStack} :
                     /\ \A k \in Logical :
                          Resolve(p, k) = k + STACK_OFFSET /\ Resolve(p, k) \in Slots
                     /\ \A k, l \in Logical : k # l => Resolve(p, k) # Resolve(p, l)
                     /\ -1 \in Logical /\ Resolve(p, -1) # Resolve(p, 0)

\* C18: newSearchThreadPool leaves what it was given as it was: the position
\* of the caller, its st and its side to move, is still the caller's, every
\* worker has the limits and the info pointer passed in, and the call has
\* written the Thread array and the accumulator blocks of the workers only.
InputsUntouched ==
    /\ [](Returned("newSearch") =>
            /\ \E call \in SearchCalls :
                 /\ last.board = call.board
                 /\ last.limits = call.limits
                 /\ last.info = call.info
            /\ \A i \in Workers :
                 /\ threads[i].limits = last.limits
                 /\ threads[i].info = last.info
                 /\ threads[i].board.turn = last.board.turn
                 /\ threads[i].board.st # last.board.st)
    /\ [][(status = "live" /\ status' = "live" /\ last'.op = "newSearch") =>
            /\ DOMAIN heap' = DOMAIN heap
            /\ DOMAIN threads' = DOMAIN threads
            /\ <<allocLog', freeLog', arrayFrees'>> = <<allocLog, freeLog, arrayFrees>>
            /\ <<ContemptDrawPenalty', ContemptComplexity'>> =
                  <<ContemptDrawPenalty, ContemptComplexity>>
            /\ <<handles', regions', sections'>> = <<handles, regions, sections>>]_vars

\* A search start with BLACK to move, given to two workers.
BlackPositionGiven ==
    /\ Returned("newSearch")
    /\ nthreadsArg = 2
    /\ last.board.turn = BLACK
    /\ last.board.st = NNUEPtr(ExtState, 0)
    /\ \A i \in Workers : threads[i].board.turn = BLACK /\ threads[i].limits = last.limits

\* The fields of a Thread that are none of the seven tables.
OtherFields(t) == [f \in (DOMAIN t) \ TableNames |-> t[f]]

\* C19: resetThreadPool changes the seven tables only: the nodes, tbhits,
\* height, contempt, position, limits, info, index, nthreads and the four
\* frame arrays of every worker, every computedAccumulation flag included,
\* are after it what they were; of the operations on a pool only
\* newSearchThreadPool sets a position or a counter.
ResetChangesTablesOnly ==
    [][(status = "live" /\ status' = "live"
          /\ last'.op \in {"reset", "nodes", "tbhits", "setoption"}) =>
         /\ heap' = heap
         /\ DOMAIN threads' = DOMAIN threads
         /\ \A i \in DOMAIN threads : OtherFields(threads'[i]) = OtherFields(threads[i])
         /\ (last'.op # "reset" => threads' = threads)]_vars

\* A reset of a pool whose worker has counted a node.
ResetKeepsCount ==
    /\ Returned("reset")
    /\ \E i \in Workers : threads[i].nodes = U64(1)
    /\ TablesZero

====
